---- MODULE Spec2Model ----
(***************************************************************************)
(* Lane construction and per-hour trajectory counting of                   *)
(*   lanePolygonsNTrajectoryCount.py       (script "v1":  optional clip,   *)
(*                                          hourly counts only)            *)
(*   lanePolygonsNTrajectoryCount_v3.5.py  (script "v35": no clip,         *)
(*                                          hourly counts and total_cnt)   *)
(* main() of either script is one run: load, (clip), extract the sample,   *)
(* buffer, simplify, dissolve, split, create the lane records, build the   *)
(* spatial index, count every trajectory, finalize, save.                  *)
(*                                                                         *)
(* Geometry lives on a line of cells: a geometry is the set of cells it    *)
(* covers, its bounding box is the interval [lowest, highest] cell, and    *)
(* two geometries intersect when they share a cell.  A geometry {1, 3}     *)
(* has a bounding box that covers cell 2 without touching it.              *)
(***************************************************************************)
EXTENDS Integers, Sequences, FiniteSets, TLC

----------------------------------------------------------------------------
(* Bounds of the model *)

MaxTraj == 2                        \* features in trajectories.gpkg

Geoms == {{}, {2}, {1, 3}}          \* cells covered; {} is an empty geometry
Groups == {101, 102}                \* values of "group_id"
Seconds == {-1, 25200, 32400, 86400}  \* values of "seconds_start"
InterLayers == {{2}}                \* split lines: c cuts between c and c+1
StudyAreas == {{1, 2, 3}, {2, 3}}
SamplingRates == {2, 3}
FirstFids == {1, 2}                 \* lowest feature id of trajectories.gpkg
Scripts == {"v1", "v35"}
\* what is found at the path of an input file
LayerStatuses == {"missing", "invalid", "geographic", "metric"}
AreaStatuses == {"missing", "invalid", "metric"}

----------------------------------------------------------------------------
(* Configuration constants of the scripts *)

SCALING_FACTOR == 5
WINDOWS == <<(<<6, 9>>), (<<16, 19>>)>>
SecondsPerHour == 3600
LastHour == 23
Hours == 0..LastHour
IdWidth == 6

VARIABLES
    script,              \* which of the two scripts runs
    SCALING_ENABLED,     \* configuration
    CLIP_TO_STUDY_AREA,  \* configuration (v1 only; v35 never clips)
    SAMPLING_RATE,       \* configuration
    traj_file,           \* what trajectories.gpkg is
    inter_file,          \* what osm_roads_intersections.shp is
    area_file,           \* what study_area.gpkg is
    pc,                  \* position in main()
    message,             \* the last ERROR / SUCCESS line printed
    traj_layer,          \* features of trajectories.gpkg
    inter_layer,         \* split lines of osm_roads_intersections.shp
    area_layer,          \* the study area polygon (v1, clipping on)
    working_layer,       \* the collection sampled and counted
    extracted, buffered, simplified, dissolved, lanes_layer,
    out_layer,           \* memory layer "Lanes"; feature id = position
    spatial_index,       \* QgsSpatialIndex over out_layer
    counts_map,          \* lane fid -> hour -> set of group ids
    step,                \* trajectories visited by the counting loop
    failed,              \* (record, lane) pairs whose exact test failed
    existing,            \* names of the files in the output folder
    counter,             \* counter of the unique-name loop
    full_path,           \* the name the unique-name loop is looking at
    path_pc,             \* position in the unique-name loop
    variant,             \* which of the two unique-name loops runs
    outputs              \* files written by the save step

vars == <<script, SCALING_ENABLED, CLIP_TO_STUDY_AREA, SAMPLING_RATE,
          traj_file, inter_file, area_file, pc,
          message, traj_layer, inter_layer, area_layer, working_layer, extracted,
          buffered, simplified, dissolved, lanes_layer, out_layer,
          spatial_index, counts_map, step, failed, outputs,
          existing, counter, full_path, path_pc, variant>>

paths == <<existing, counter, full_path, path_pc, variant>>
config == <<script, SCALING_ENABLED, CLIP_TO_STUDY_AREA, SAMPLING_RATE>>
files == <<traj_file, inter_file, area_file>>
inputs == <<traj_layer, inter_layer, area_layer>>
builder == <<extracted, buffered, simplified, dissolved, lanes_layer>>

----------------------------------------------------------------------------
(* Helpers on sets and sequences *)

Min(S) == CHOOSE x \in S : \A y \in S : x <= y
Max(S) == CHOOSE x \in S : \A y \in S : x >= y

RECURSIVE SortedSeq(_)
\* the sets of S, lowest cell first (S holds disjoint non-empty sets)
SortedSeq(S) ==
    IF S = {} THEN <<>>
    ELSE LET first == CHOOSE p \in S : \A q \in S : Min(p) <= Min(q)
         IN  <<first>> \o SortedSeq(S \ {first})

RECURSIVE Flatten(_)
Flatten(ss) == IF ss = <<>> THEN <<>> ELSE Head(ss) \o Flatten(Tail(ss))

RECURSIVE Digits(_)
\* decimal digits of n >= 0, most significant first
Digits(n) == IF n < 10 THEN <<n>> ELSE Append(Digits(n \div 10), n % 10)

----------------------------------------------------------------------------
(* Geometry library (QGIS) on the line of cells *)

IsEmptyGeom(geom) == geom = {}

BoundingBox(geom) == [lo |-> Min(geom), hi |-> Max(geom)]

\* mutant: boxes that only touch do not count
BoxIntersectsStrict(a, b) == a.lo < b.hi /\ b.lo < a.hi

\* QgsRectangle.intersects, as used by QgsSpatialIndex.intersects
BoxIntersects(a, b) == a.lo <= b.hi /\ b.lo <= a.hi

\* QgsGeometry.intersects: any shared point counts
GeomIntersects(a, b) == a \cap b # {}

\* cells a..b all belong to G and no split line lies between two of them
Joined(a, b, G, lines) ==
    \A k \in a..b : k \in G /\ (k < b => k \notin lines)

Piece(c, G, lines) ==
    {d \in G : Joined(Min({c, d}), Max({c, d}), G, lines)}

\* native:splitwithlines on one feature: its parts, each cut at the lines;
\* a feature without geometry is passed through
SplitGeometry(G, lines) ==
    IF IsEmptyGeom(G) THEN <<G>>
    ELSE SortedSeq({Piece(c, G, lines) : c \in G})

\* native:clip: the features that intersect the overlay, cut to it; the
\* result is a memory layer, whose feature ids are assigned from 1
Renumber(layer) == [i \in 1..Len(layer) |-> [layer[i] EXCEPT !.fid = i]]

ClipLayer(layer, area) ==
    LET Overlaps(f) == GeomIntersects(f.geom, area)
        kept == SelectSeq(layer, Overlaps)
    IN  Renumber([i \in 1..Len(kept) |->
                     [kept[i] EXCEPT !.geom = kept[i].geom \cap area]])

----------------------------------------------------------------------------
(* Sampler: the expression of native:extractbyexpression *)

\* mutant: the end of a window belongs to it
InWindowClosed(sec) ==
    \E w \in 1..Len(WINDOWS) :
        /\ sec >= WINDOWS[w][1] * SecondsPerHour
        /\ sec <= WINDOWS[w][2] * SecondsPerHour

\* ("seconds_start" >= s*3600 AND "seconds_start" < e*3600) OR ...
InWindow(sec) ==
    \E w \in 1..Len(WINDOWS) :
        /\ sec >= WINDOWS[w][1] * SecondsPerHour
        /\ sec <  WINDOWS[w][2] * SecondsPerHour

\* @id is the feature id of the feature in the input layer
StrideHit(f) == f.fid % SAMPLING_RATE = 0

\* mutant: the two conditions are joined by OR
EitherCondition(f) == InWindow(f.seconds_start) \/ StrideHit(f)

\* (window conditions) AND (@id % SAMPLING_RATE = 0)
combined_expression(f) == InWindow(f.seconds_start) /\ StrideHit(f)

ExtractByExpression(layer) == SelectSeq(layer, combined_expression)

----------------------------------------------------------------------------
(* Lane Builder *)

\* native:buffer, flat end caps: one polygon per sampled trajectory
Buffer(layer) == [i \in 1..Len(layer) |-> layer[i].geom]

\* native:simplifygeometries keeps the cells a polygon covers
Simplify(layer) == layer

\* native:dissolve without a field: all features become one
Dissolve(layer) ==
    IF Len(layer) = 0 THEN <<>>
    ELSE <<UNION {layer[i] : i \in 1..Len(layer)}>>

SplitWithLines(layer, lines) ==
    Flatten([i \in 1..Len(layer) |-> SplitGeometry(layer[i], lines)])

\* mutant: the number is written without padding
FormatUnpadded(n) == Digits(n)

\* f"{n:06d}"
Format06d(n) ==
    LET d == Digits(n)
    IN  IF Len(d) >= IdWidth THEN d
        ELSE [k \in 1..(IdWidth - Len(d)) |-> 0] \o d

HasTotal == script = "v35"

\* the lane record of the i-th (0-based) split polygon
NewFeature(i, geom) ==
    IF HasTotal
    THEN [ENVIID |-> Format06d(i + 1), geom |-> geom,
          h |-> [hr \in Hours |-> 0], total_cnt |-> 0]
    ELSE [ENVIID |-> Format06d(i + 1), geom |-> geom,
          h |-> [hr \in Hours |-> 0]]

MakeOutLayer(lanes) == [k \in 1..Len(lanes) |-> NewFeature(k - 1, lanes[k])]

\* mutant: the index is built when only the first lane record is there
MakeSpatialIndexFirstLane(layer) ==
    {[id |-> l, box |-> BoundingBox(layer[l].geom)] :
        l \in {k \in 1..Len(layer) : k = 1 /\ ~IsEmptyGeom(layer[k].geom)}}

\* QgsSpatialIndex(out_layer.getFeatures()): features without geometry
\* are not indexed
MakeSpatialIndex(layer) ==
    {[id |-> l, box |-> BoundingBox(layer[l].geom)] :
        l \in {k \in 1..Len(layer) : ~IsEmptyGeom(layer[k].geom)}}

\* mutant: only the candidate the index happens to return first is kept
IndexIntersectsFirstOnly(index, rect) ==
    LET found == {e.id : e \in {x \in index : BoxIntersects(x.box, rect)}}
    IN  IF found = {} THEN {} ELSE {Min(found)}

\* spatial_index.intersects(rect)
IndexIntersects(index, rect) ==
    {e.id : e \in {x \in index : BoxIntersects(x.box, rect)}}

----------------------------------------------------------------------------
(* Counting Engine *)

\* mutant: the hour wraps around the clock
StartHourWrapped(traj) == (traj.seconds_start \div SecondsPerHour) % 24

\* int(traj["seconds_start"] // 3600)
StartHour(traj) == traj.seconds_start \div SecondsPerHour

HourOutOfRange(start_hour) == start_hour < 0 \/ start_hour > LastHour

\* mutant: the key is the record, not the trip
RecordKey(traj) == traj.fid

\* group_id = traj["group_id"]
GroupKey(traj) == traj.group_id

\* mutant: the cell is assigned the group instead of growing by it
CountOneOverwrite(cmap, traj) ==
    IF IsEmptyGeom(traj.geom) THEN cmap
    ELSE IF HourOutOfRange(StartHour(traj)) THEN cmap
    ELSE LET candidates ==
                 IndexIntersects(spatial_index, BoundingBox(traj.geom))
             hits == {l \in candidates :
                         GeomIntersects(out_layer[l].geom, traj.geom)}
         IN  [l \in DOMAIN cmap |->
                 IF l \in hits
                 THEN [cmap[l] EXCEPT ![StartHour(traj)] = {GroupKey(traj)}]
                 ELSE cmap[l]]

\* mutant: the group is also added to the hour after the start hour
CountOneNextHourToo(cmap, traj) ==
    IF IsEmptyGeom(traj.geom) THEN cmap
    ELSE IF HourOutOfRange(StartHour(traj)) THEN cmap
    ELSE LET candidates ==
                 IndexIntersects(spatial_index, BoundingBox(traj.geom))
             hits == {l \in candidates :
                         GeomIntersects(out_layer[l].geom, traj.geom)}
             later == Min({StartHour(traj) + 1, LastHour})
         IN  [l \in DOMAIN cmap |->
                 IF l \in hits
                 THEN [cmap[l] EXCEPT ![StartHour(traj)] =
                                          @ \cup {GroupKey(traj)},
                                      ![later] = @ \cup {GroupKey(traj)}]
                 ELSE cmap[l]]

\* the body of the loop over one trajectory
CountOne(cmap, traj) ==
    IF IsEmptyGeom(traj.geom) THEN cmap
    ELSE IF HourOutOfRange(StartHour(traj)) THEN cmap
    ELSE LET candidates ==
                 IndexIntersects(spatial_index, BoundingBox(traj.geom))
             hits == {l \in candidates :
                         GeomIntersects(out_layer[l].geom, traj.geom)}
         IN  [l \in DOMAIN cmap |->
                 IF l \in hits
                 THEN [cmap[l] EXCEPT ![StartHour(traj)] =
                                          @ \cup {GroupKey(traj)}]
                 ELSE cmap[l]]

----------------------------------------------------------------------------
(* Scaling and finalization *)

\* mutant: the factor is applied twice
ScaledTwice(count) ==
    IF SCALING_ENABLED THEN count * SCALING_FACTOR * SCALING_FACTOR ELSE count

\* mutant: the factor is applied whether or not scaling is enabled
ScaledAlways(count) == count * SCALING_FACTOR

\* count = len(unique_ids); if SCALING_ENABLED: count *= SCALING_FACTOR
Scaled(count) == IF SCALING_ENABLED THEN count * SCALING_FACTOR ELSE count

\* mutant: the count of hour hr is read from the set of the next hour
HourlyCountShifted(h_data, hr) ==
    Scaled(Cardinality(h_data[(hr + 1) % 24]))

\* mutant: the count is one too low
HourlyCountLessOne(h_data, hr) == Scaled(Cardinality(h_data[hr])) - 1

\* the count written to h_<hr>
HourlyCount(h_data, hr) == Scaled(Cardinality(h_data[hr]))

\* mutant: daily_unique is assigned, not updated: the last hour's set
DailyUniqueLastOnly(h_data) == h_data[LastHour]

\* daily_unique after the loop over the 24 hours
DailyUnique(h_data) == UNION {h_data[hr] : hr \in Hours}

RECURSIVE SumHourly(_, _)
\* mutant: the total is the sum of the scaled hourly counts 0..hr
SumHourly(h_data, hr) ==
    IF hr < 0 THEN 0 ELSE HourlyCount(h_data, hr) + SumHourly(h_data, hr - 1)

TotalFromHourly(h_data) == SumHourly(h_data, LastHour)

\* total_count = len(daily_unique), scaled like the hourly counts
TotalCount(h_data) == Scaled(Cardinality(DailyUnique(h_data)))

\* mutant: the script with total_cnt writes the total and no hourly count
FinalizeFeatureTotalOnly(feat, h_data) ==
    IF HasTotal
    THEN [feat EXCEPT !.total_cnt = TotalCount(h_data)]
    ELSE [feat EXCEPT !.h = [hr \in Hours |-> HourlyCount(h_data, hr)]]

\* attr_map of one lane
FinalizeFeature(feat, h_data) ==
    IF HasTotal
    THEN [feat EXCEPT !.h = [hr \in Hours |-> HourlyCount(h_data, hr)],
                      !.total_cnt = TotalCount(h_data)]
    ELSE [feat EXCEPT !.h = [hr \in Hours |-> HourlyCount(h_data, hr)]]

----------------------------------------------------------------------------
(* Input checks of main() *)

\* os.path.exists(path)
Exists(file) == file # "missing"

\* QgsVectorLayer(path, ...).isValid()
IsValid(file) == file \in {"geographic", "metric"}

\* layer.crs().isGeographic()
IsGeographic(file) == file = "geographic"

check_metric_crs(file) == ~IsGeographic(file)

\* not os.path.exists(traj_path) or not os.path.exists(inter_path)
MainInputsMissing == ~Exists(traj_file) \/ ~Exists(inter_file)

\* mutant: only the trajectory layer is tested
TrajLayerNotValid == ~IsValid(traj_file)

\* not traj_layer.isValid() or not inter_layer.isValid()
LayersNotValid == ~IsValid(traj_file) \/ ~IsValid(inter_file)

\* mutant: only the trajectory layer is tested
TrajCrsNotMetric == ~check_metric_crs(traj_file)

\* not check_metric_crs(traj_layer) or not check_metric_crs(inter_layer)
LayersNotMetric ==
    ~check_metric_crs(traj_file) \/ ~check_metric_crs(inter_file)

----------------------------------------------------------------------------
(* Inputs *)

\* contents trajectories.gpkg may have; its feature ids are consecutive
\* from the lowest one, in file order
TrajLayers ==
    UNION {[1..n -> [seconds_start : Seconds, group_id : Groups,
                     geom : Geoms]] : n \in 0..MaxTraj}

WithFids(layer, first) ==
    [i \in 1..Len(layer) |->
        [fid |-> first + i - 1, seconds_start |-> layer[i].seconds_start,
         group_id |-> layer[i].group_id, geom |-> layer[i].geom]]

----------------------------------------------------------------------------
(* The run: main() *)

Init ==
    /\ script \in Scripts
    /\ SCALING_ENABLED \in BOOLEAN
    /\ CLIP_TO_STUDY_AREA \in (IF script = "v1" THEN BOOLEAN ELSE {FALSE})
    /\ SAMPLING_RATE \in SamplingRates
    /\ traj_file \in LayerStatuses
    /\ inter_file \in LayerStatuses
    \* study_area.gpkg is looked at only when clipping is on
    /\ area_file \in (IF CLIP_TO_STUDY_AREA THEN AreaStatuses
                                              ELSE {"missing"})
    /\ pc = "load"
    /\ message = ""
    /\ traj_layer = <<>>
    /\ inter_layer = {}
    /\ area_layer = {}
    /\ working_layer = <<>>
    /\ extracted = <<>>
    /\ buffered = <<>>
    /\ simplified = <<>>
    /\ dissolved = <<>>
    /\ lanes_layer = <<>>
    /\ out_layer = <<>>
    /\ spatial_index = {}
    /\ counts_map = <<>>
    /\ step = 0
    /\ failed = {}
    /\ outputs = {}
    /\ existing = {}
    /\ counter = 0
    /\ full_path = <<>>
    /\ path_pc = "idle"
    /\ variant = "none"

\* an early return of main(): nothing but the printed line changes
Abort(text) ==
    /\ pc' = "aborted"
    /\ message' = text
    /\ UNCHANGED <<config, files, failed, paths, inputs, working_layer, builder, out_layer,
                   spatial_index, counts_map, step, outputs>>

\* os.path.exists fails for one of the two input files
InputsMissing ==
    /\ pc = "load"
    /\ MainInputsMissing
    /\ Abort("ERROR: input files missing")

\* QgsVectorLayer(...).isValid() is false for one of the two layers
LayersInvalid ==
    /\ pc = "load"
    /\ ~MainInputsMissing
    /\ LayersNotValid
    /\ Abort("ERROR: could not load layers")

\* check_metric_crs fails for one of the two layers
CrsNotMetric ==
    /\ pc = "load"
    /\ ~MainInputsMissing
    /\ ~LayersNotValid
    /\ LayersNotMetric
    /\ Abort("ERROR: layers must be in a metric CRS")

\* both files exist, load and are metric; working_layer = traj_layer
LoadLayers ==
    /\ pc = "load"
    /\ ~MainInputsMissing
    /\ ~LayersNotValid
    /\ ~LayersNotMetric
    /\ \E layer \in TrajLayers, first \in FirstFids, lines \in InterLayers :
          /\ traj_layer' = WithFids(layer, first)
          /\ inter_layer' = lines
          /\ working_layer' = WithFids(layer, first)
    /\ area_layer' = area_layer
    /\ pc' = IF CLIP_TO_STUDY_AREA THEN "clip" ELSE "extract"
    /\ UNCHANGED <<config, files, failed, paths, message, builder, out_layer, spatial_index,
                   counts_map, step, outputs>>

StudyAreaMissing ==
    /\ pc = "clip"
    /\ ~Exists(area_file)
    /\ Abort("ERROR: clipping is ON but study area was not found")

StudyAreaInvalid ==
    /\ pc = "clip"
    /\ Exists(area_file)
    /\ ~IsValid(area_file)
    /\ Abort("ERROR: study area layer failed to load")

\* Step 0: working_layer = native:clip(traj_layer, area_layer)
ClipTrajectories ==
    /\ pc = "clip"
    /\ Exists(area_file)
    /\ IsValid(area_file)
    /\ \E area \in StudyAreas :
          /\ area_layer' = area
          /\ working_layer' = ClipLayer(traj_layer, area)
    /\ pc' = "extract"
    /\ UNCHANGED <<config, files, failed, paths, message, traj_layer, inter_layer, builder, out_layer,
                   spatial_index, counts_map, step, outputs>>

\* mutant: the sample is drawn from the raw layer, whatever the clip did
SampleInputRaw == traj_layer

\* 'INPUT': working_layer of native:extractbyexpression
SampleInput == working_layer

\* Step 1: the Lane Builder, one processing.run per action
Extract ==
    /\ pc = "extract"
    /\ extracted' = ExtractByExpression(SampleInput)
    /\ pc' = "buffer"
    /\ UNCHANGED <<config, files, failed, paths, message, inputs, working_layer, buffered,
                   simplified, dissolved, lanes_layer, out_layer,
                   spatial_index, counts_map, step, outputs>>

BufferStep ==
    /\ pc = "buffer"
    /\ buffered' = Buffer(extracted)
    /\ pc' = "simplify"
    /\ UNCHANGED <<config, files, failed, paths, message, inputs, working_layer, extracted,
                   simplified, dissolved, lanes_layer, out_layer,
                   spatial_index, counts_map, step, outputs>>

SimplifyStep ==
    /\ pc = "simplify"
    /\ simplified' = Simplify(buffered)
    /\ pc' = "dissolve"
    /\ UNCHANGED <<config, files, failed, paths, message, inputs, working_layer, extracted,
                   buffered, dissolved, lanes_layer, out_layer,
                   spatial_index, counts_map, step, outputs>>

DissolveStep ==
    /\ pc = "dissolve"
    /\ dissolved' = Dissolve(simplified)
    /\ pc' = "split"
    /\ UNCHANGED <<config, files, failed, paths, message, inputs, working_layer, extracted,
                   buffered, simplified, lanes_layer, out_layer,
                   spatial_index, counts_map, step, outputs>>

SplitStep ==
    /\ pc = "split"
    /\ lanes_layer' = SplitWithLines(dissolved, inter_layer)
    /\ pc' = "prepare"
    /\ UNCHANGED <<config, files, failed, paths, message, inputs, working_layer, extracted,
                   buffered, simplified, dissolved, out_layer,
                   spatial_index, counts_map, step, outputs>>

\* mutant: the lane records are made of the dissolved, unsplit polygon
LaneSourceUnsplit == dissolved

\* enumerate(lanes_layer.getFeatures())
LaneSource == lanes_layer

\* the output layer with one zeroed record per lane polygon
PrepareOutputLayer ==
    /\ pc = "prepare"
    /\ out_layer' = MakeOutLayer(LaneSource)
    /\ pc' = "index"
    /\ UNCHANGED <<config, files, failed, paths, message, inputs, working_layer, builder,
                   spatial_index, counts_map, step, outputs>>

\* spatial_index, then the empty counts_map and step = 0
BuildSpatialIndex ==
    /\ pc = "index"
    /\ spatial_index' = MakeSpatialIndex(out_layer)
    /\ counts_map' = [l \in 1..Len(out_layer) |-> [hr \in Hours |-> {}]]
    /\ step' = 0
    /\ pc' = "count"
    /\ UNCHANGED <<config, files, failed, paths, message, inputs, working_layer, builder,
                   out_layer, outputs>>

\* mutant: the loop runs over the sample of the Lane Builder
CountedLayerSample == extracted

\* for traj in working_layer.getFeatures() (traj_layer in the v3.5 script)
CountedLayer == working_layer

\* mutant: a record without geometry ends the loop (break for continue)
AfterVisitBreak(st, traj) ==
    IF IsEmptyGeom(traj.geom) THEN Len(CountedLayer) ELSE st + 1

\* the loop goes on with the next record, whatever the record was
AfterVisit(st, traj) == st + 1

\* mutant: the loop writes the counts so far into the lane records
LaneStoreWritten(layer, cmap) ==
    [l \in 1..Len(layer) |-> FinalizeFeature(layer[l], cmap[l])]

\* the loop body has no statement on out_layer: the lane store after a
\* visit is the lane store before it
LaneStoreAfterVisit(layer, cmap) == layer

\* Step 2: one iteration of the loop over working_layer
CountTrajectory ==
    /\ pc = "count"
    /\ step < Len(CountedLayer)
    /\ step' = AfterVisit(step, CountedLayer[step + 1])
    /\ counts_map' = CountOne(counts_map, CountedLayer[step + 1])
    /\ out_layer' = LaneStoreAfterVisit(out_layer, counts_map')
    /\ UNCHANGED <<config, files, failed, paths, pc, message, inputs, working_layer, builder,
                   spatial_index, outputs>>

\* mutant: the statements behind the loop run whatever the loop has done
LoopLeftAnyTime(st) == TRUE

\* the for loop ends when the iterator has no feature left
LoopExhausted(st) == st = Len(CountedLayer)

\* Step 3: the loop is over; out_dp.changeAttributeValues(updates)
Finalize ==
    /\ pc = "count"
    /\ LoopExhausted(step)
    /\ out_layer' = [l \in 1..Len(out_layer) |->
                        FinalizeFeature(out_layer[l], counts_map[l])]
    /\ pc' = "save"
    /\ UNCHANGED <<config, files, failed, paths, message, inputs, working_layer, builder,
                   spatial_index, counts_map, step, outputs>>

\* the two writeAsVectorFormatV3 calls and the SUCCESS line
Save ==
    /\ pc = "save"
    /\ outputs' = {[driver |-> "GPKG", features |-> out_layer],
                   [driver |-> "CSV", features |-> out_layer]}
    /\ message' = "SUCCESS"
    /\ pc' = "done"
    /\ UNCHANGED <<config, files, failed, paths, inputs, working_layer, builder, out_layer,
                   spatial_index, counts_map, step>>

Next ==
    \/ InputsMissing
    \/ LayersInvalid
    \/ CrsNotMetric
    \/ LoadLayers
    \/ StudyAreaMissing
    \/ StudyAreaInvalid
    \/ ClipTrajectories
    \/ Extract
    \/ BufferStep
    \/ SimplifyStep
    \/ DissolveStep
    \/ SplitStep
    \/ PrepareOutputLayer
    \/ BuildSpatialIndex
    \/ CountTrajectory
    \/ Finalize
    \/ Save

Spec == Init /\ [][Next]_vars

----------------------------------------------------------------------------
(* The Sampler at the edges of the windows: runs that have loaded a layer  *)
(* of one trajectory starting at, just before or just after an edge, and   *)
(* are about to call native:extractbyexpression                            *)

WindowSeconds ==
    {0, 21599, 21600, 21601, 25200, 32399, 32400, 32401, 43200,
     57599, 57600, 57601, 68399, 68400, 68401, 86399}

InitWindows ==
    /\ script \in Scripts
    /\ SCALING_ENABLED \in BOOLEAN
    /\ CLIP_TO_STUDY_AREA = FALSE
    /\ SAMPLING_RATE \in SamplingRates
    /\ traj_file = "metric"
    /\ inter_file = "metric"
    /\ area_file = "missing"
    /\ pc = "extract"
    /\ message = ""
    /\ \E sec \in WindowSeconds, fid \in {SAMPLING_RATE, SAMPLING_RATE + 1},
          g \in Groups :
          traj_layer = <<[fid |-> fid, seconds_start |-> sec,
                          group_id |-> g, geom |-> {1, 3}]>>
    /\ inter_layer \in InterLayers
    /\ area_layer = {}
    /\ working_layer = traj_layer
    /\ extracted = <<>>
    /\ buffered = <<>>
    /\ simplified = <<>>
    /\ dissolved = <<>>
    /\ lanes_layer = <<>>
    /\ out_layer = <<>>
    /\ spatial_index = {}
    /\ counts_map = <<>>
    /\ step = 0
    /\ failed = {}
    /\ outputs = {}
    /\ existing = {}
    /\ counter = 0
    /\ full_path = <<>>
    /\ path_pc = "idle"
    /\ variant = "none"

NextWindows == Extract

SpecWindows == InitWindows /\ [][NextWindows]_vars

----------------------------------------------------------------------------
(* The unique output name: get_unique_filepath of the two lane scripts and *)
(* the loop before the export of findNBufferIntersections.  Folder, base   *)
(* name and extension are fixed; a name is the text between the base name  *)
(* and the extension: nothing, or "_" and the digits of a number           *)

MaxFiles == 4

PlainName == <<>>

\* f"{basename}_{counter}.{extension}"
NumberedName(n) == Digits(n)

AllNames == {PlainName} \cup {NumberedName(n) : n \in 1..MaxFiles}

Variants == {"get_unique_filepath", "final_output_name"}

\* mutant: only the plain name is looked up (an if for the while)
ExistsPlainOnly(name) == name = PlainName /\ name \in existing

\* os.path.exists(full_path)
PathExists(name) == name \in existing

InitPaths ==
    /\ script = "v1"
    /\ SCALING_ENABLED = TRUE
    /\ CLIP_TO_STUDY_AREA = TRUE
    /\ SAMPLING_RATE = 2
    /\ traj_file = "metric"
    /\ inter_file = "metric"
    /\ area_file = "metric"
    /\ pc = "load"
    /\ message = ""
    /\ traj_layer = <<>>
    /\ inter_layer = {}
    /\ area_layer = {}
    /\ working_layer = <<>>
    /\ extracted = <<>>
    /\ buffered = <<>>
    /\ simplified = <<>>
    /\ dissolved = <<>>
    /\ lanes_layer = <<>>
    /\ out_layer = <<>>
    /\ spatial_index = {}
    /\ counts_map = <<>>
    /\ step = 0
    /\ failed = {}
    /\ outputs = {}
    /\ existing \in SUBSET AllNames
    /\ variant \in Variants
    /\ counter = 0
    /\ full_path = PlainName
    /\ path_pc = "call"

main_state ==
    <<config, files, failed, pc, message, inputs, working_layer, builder,
      out_layer, spatial_index, counts_map, step, outputs>>

\* counter = 0; filename = f"{basename}.{extension}"
CallGetUniqueFilepath ==
    /\ path_pc = "call"
    /\ variant = "get_unique_filepath"
    /\ counter' = 0
    /\ full_path' = PlainName
    /\ path_pc' = "while"
    /\ UNCHANGED <<main_state, existing, variant>>

\* final_output_name = OUTPUT_FILENAME; counter = 1
StartFinalOutputName ==
    /\ path_pc = "call"
    /\ variant = "final_output_name"
    /\ counter' = 1
    /\ full_path' = PlainName
    /\ path_pc' = "while"
    /\ UNCHANGED <<main_state, existing, variant>>

\* counter += 1; filename = f"{basename}_{counter}.{extension}"
TryNextName ==
    /\ path_pc = "while"
    /\ variant = "get_unique_filepath"
    /\ PathExists(full_path)
    /\ counter' = counter + 1
    /\ full_path' = NumberedName(counter + 1)
    /\ UNCHANGED <<main_state, existing, variant, path_pc>>

\* final_output_name = f"{base_name}_{counter}{ext}"; counter += 1
TryNextOutputName ==
    /\ path_pc = "while"
    /\ variant = "final_output_name"
    /\ PathExists(full_path)
    /\ full_path' = NumberedName(counter)
    /\ counter' = counter + 1
    /\ UNCHANGED <<main_state, existing, variant, path_pc>>

\* the loop test fails: return full_path
ReturnPath ==
    /\ path_pc = "while"
    /\ ~PathExists(full_path)
    /\ path_pc' = "returned"
    /\ UNCHANGED <<main_state, existing, variant, counter, full_path>>

NextPaths ==
    \/ CallGetUniqueFilepath
    \/ StartFinalOutputName
    \/ TryNextName
    \/ TryNextOutputName
    \/ ReturnPath

\* nothing but the loop runs: each of its steps is taken when it can be
SpecPaths == InitPaths /\ [][NextPaths]_vars /\ WF_vars(NextPaths)

----------------------------------------------------------------------------
(* Runs in which the geometry library fails on a trajectory/lane pair.     *)
(* The loop body has no try/except and prints nothing about a pair: a      *)
(* failure the library swallows makes intersects() answer False, a failure *)
(* it raises leaves main() as an unhandled exception.                      *)

\* the candidates of the record the loop is about to visit
NextCandidates ==
    LET traj == CountedLayer[step + 1]
    IN  IF IsEmptyGeom(traj.geom) \/ HourOutOfRange(StartHour(traj)) THEN {}
        ELSE IndexIntersects(spatial_index, BoundingBox(traj.geom))

\* lane_feat.geometry().intersects(geom) fails inside the library for one
\* candidate and answers False: the pair is left out, nothing is printed
ExactTestFailsSilently ==
    /\ pc = "count"
    /\ step < Len(CountedLayer)
    /\ \E l \in NextCandidates :
          /\ counts_map' =
                 [CountOne(counts_map, CountedLayer[step + 1])
                     EXCEPT ![l] = counts_map[l]]
          /\ failed' = failed \cup {<<step + 1, l>>}
    /\ step' = AfterVisit(step, CountedLayer[step + 1])
    /\ UNCHANGED <<config, files, paths, pc, message, inputs, working_layer,
                   builder, out_layer, spatial_index, outputs>>

\* the same failure raised as a Python exception: main() ends there
ExactTestRaises ==
    /\ pc = "count"
    /\ step < Len(CountedLayer)
    /\ \E l \in NextCandidates : failed' = failed \cup {<<step + 1, l>>}
    /\ pc' = "aborted"
    /\ message' = "Traceback (most recent call last)"
    /\ UNCHANGED <<config, files, paths, inputs, working_layer, builder,
                   out_layer, spatial_index, counts_map, step, outputs>>

NextFaulty ==
    \/ Next
    \/ ExactTestFailsSilently
    \/ ExactTestRaises

SpecFaulty == Init /\ [][NextFaulty]_vars

----------------------------------------------------------------------------
(* Reference definitions used by the properties below; they are written  *)
(* from scratch and use none of the operators of the run                   *)

Counted == pc \in {"count", "save", "done"}
CountingOver == pc \in {"save", "done"}
Lanes == 1..Len(out_layer)

RefHour(t) == t.seconds_start \div 3600

\* record i of the counted collection has geometry, starts in hour hr and
\* exactly intersects lane l
Crosses(i, l, hr) ==
    /\ working_layer[i].geom # {}
    /\ RefHour(working_layer[i]) = hr
    /\ working_layer[i].geom \cap out_layer[l].geom # {}

\* the records among the first n that cross lane l in hour hr
Crossing(n, l, hr) == {i \in 1..n : Crosses(i, l, hr)}

GroupsOf(recs) == {working_layer[i].group_id : i \in recs}

----------------------------------------------------------------------------
(* C1: Dedup invariant.  During and after the counting pass, the unscaled  *)
(* count of every cell (lane, hour) is the number of distinct group ids    *)
(* among the visited records that cross the lane in that hour: a group     *)
(* with N >= 1 such records contributes exactly 1, never N.                *)
C1_DedupPerCell ==
    Counted =>
        \A l \in Lanes, hr \in Hours :
            Cardinality(counts_map[l][hr])
                = Cardinality(GroupsOf(Crossing(step, l, hr)))

\* two records of one group cross the same lane in the same hour and the
\* finished cell counts 1
C1_Witness ==
    /\ pc = "done"
    /\ \E l \in Lanes, hr \in Hours :
          /\ \E i, j \in Crossing(Len(working_layer), l, hr) :
                /\ i # j
                /\ working_layer[i].group_id = working_layer[j].group_id
          /\ Cardinality(counts_map[l][hr]) = 1

(* C2: Counting result against a brute-force reference.  When the counting *)
(* loop has finished, counts_map[L][H] is exactly the set of group ids of  *)
(* the records of the counted collection that have geometry, start in hour *)
(* H and exactly intersect lane L: the bounding-box query neither adds nor *)
(* drops a group.                                                          *)
C2_BruteForce ==
    CountingOver =>
        \A l \in Lanes, hr \in Hours :
            counts_map[l][hr]
                = GroupsOf(Crossing(Len(working_layer), l, hr))

\* a record whose bounding box overlaps a lane's box without touching the
\* lane, beside a record that does cross a lane
C2_Witness ==
    /\ pc = "done"
    /\ \E l \in Lanes, i \in 1..Len(working_layer) :
          LET g == working_layer[i].geom
              p == out_layer[l].geom
          IN  /\ g # {} /\ p # {}
              /\ RefHour(working_layer[i]) \in Hours
              /\ \E x, y \in g : \E z \in p : x < z /\ z < y
              /\ g \cap p = {}
              /\ counts_map[l][RefHour(working_layer[i])] # {}
              /\ working_layer[i].group_id
                     \notin counts_map[l][RefHour(working_layer[i])]

(* C3: Hour bucketing and out-of-range skip.  Every group id found in a    *)
(* cell (lane, H) comes from a visited record with                         *)
(* floor(seconds_start / 3600) = H that crosses the lane; so a record      *)
(* whose hour is outside 0..23 (86400, or a negative seconds_start) adds   *)
(* its group id to no set of any lane.                                     *)
C3_HourBucket ==
    Counted =>
        \A l \in Lanes, hr \in Hours :
            \A g \in counts_map[l][hr] :
                \E i \in 1..step :
                    /\ working_layer[i].group_id = g
                    /\ working_layer[i].seconds_start >= hr * 3600
                    /\ working_layer[i].seconds_start < (hr + 1) * 3600

\* a record at 86400 (hour 24) lies on a lane that another group has been
\* counted on, and its own group is in none of the lane's sets
C3_Witness ==
    /\ pc = "done"
    /\ \E l \in Lanes, i \in 1..Len(working_layer) :
          /\ working_layer[i].seconds_start = 86400
          /\ working_layer[i].geom \cap out_layer[l].geom # {}
          /\ \E hr \in Hours : counts_map[l][hr] # {}
          /\ \A hr \in Hours :
                working_layer[i].group_id \notin counts_map[l][hr]

\* the same for a record with a negative seconds_start (hour -1)
C3_WitnessNegative ==
    /\ pc = "done"
    /\ \E l \in Lanes, i \in 1..Len(working_layer) :
          /\ working_layer[i].seconds_start < 0
          /\ working_layer[i].geom \cap out_layer[l].geom # {}
          /\ \E hr \in Hours : counts_map[l][hr] # {}
          /\ \A hr \in Hours :
                working_layer[i].group_id \notin counts_map[l][hr]

(* C4: Scaling linearity.  With scaling enabled, every h_<h> of every    *)
(* lane, in the output layer and in the files written from it, is the      *)
(* number of distinct group ids of the cell times SCALING_FACTOR, the       *)
(* factor applied exactly once.                                            *)
C4_ScalingLinear ==
    (CountingOver /\ SCALING_ENABLED) =>
        \A l \in Lanes, hr \in Hours :
            /\ out_layer[l].h[hr]
                   = Cardinality(counts_map[l][hr]) * SCALING_FACTOR
            /\ \A o \in outputs :
                   o.features[l].h[hr]
                       = Cardinality(counts_map[l][hr]) * SCALING_FACTOR

\* a finished scaled run with a cell of two groups, written as 10
C4_Witness ==
    /\ pc = "done"
    /\ SCALING_ENABLED
    /\ \E l \in Lanes, hr \in Hours :
          /\ Cardinality(counts_map[l][hr]) = 2
          /\ \A o \in outputs : o.features[l].h[hr] = 10

(* C5: Scaling disabled.  When SCALING_ENABLED is false every h_<h> is the *)
(* raw cardinality of its group-id set and total_cnt, where the script     *)
(* produces it, the raw cardinality of the union of the lane's sets; the   *)
(* factor does not enter.                                                  *)
C5_ScalingOff ==
    (CountingOver /\ ~SCALING_ENABLED) =>
        \A l \in Lanes :
            /\ \A hr \in Hours :
                   out_layer[l].h[hr] = Cardinality(counts_map[l][hr])
            /\ script = "v35" =>
                   out_layer[l].total_cnt
                       = Cardinality(UNION {counts_map[l][hr] : hr \in Hours})

\* a finished unscaled run of the script with total_cnt: a cell of two
\* groups written as 2, total 2
C5_Witness ==
    /\ pc = "done"
    /\ ~SCALING_ENABLED
    /\ script = "v35"
    /\ \E l \in Lanes, hr \in Hours :
          /\ Cardinality(counts_map[l][hr]) = 2
          /\ out_layer[l].h[hr] = 2
          /\ out_layer[l].total_cnt = 2

(* C6: Union correctness of the daily total.  For every lane the written   *)
(* total_cnt is the cardinality of the union of the lane's 24 raw group-id *)
(* sets, times SCALING_FACTOR iff scaling is enabled; it is not derived    *)
(* from the scaled hourly counts.                                          *)
C6_TotalIsUnion ==
    (CountingOver /\ script = "v35") =>
        \A l \in Lanes :
            out_layer[l].total_cnt
                = (IF SCALING_ENABLED THEN SCALING_FACTOR ELSE 1)
                  * Cardinality(UNION {counts_map[l][hr] : hr \in Hours})

\* one group crossed the lane in two different hours: both hourly cells are
\* 5 and the total is 5, not 10
C6_Witness ==
    /\ pc = "done"
    /\ script = "v35"
    /\ SCALING_ENABLED
    /\ \E l \in Lanes, h1, h2 \in Hours :
          /\ h1 # h2
          /\ counts_map[l][h1] \cap counts_map[l][h2] # {}
          /\ out_layer[l].h[h1] = 5
          /\ out_layer[l].h[h2] = 5
          /\ out_layer[l].total_cnt = 5

RECURSIVE SumTo(_, _)
SumTo(f, n) == IF n < 0 THEN 0 ELSE f[n] + SumTo(f, n - 1)

\* a written count before scaling
Unscaled(count) == IF SCALING_ENABLED THEN count \div 5 ELSE count

HourSetsDisjoint(l) ==
    \A h1, h2 \in Hours :
        h1 # h2 => counts_map[l][h1] \cap counts_map[l][h2] = {}

(* C7: Daily total versus hourly sum.  For every lane the unscaled         *)
(* total_cnt is at most the sum of the 24 unscaled hourly counts, and the  *)
(* two are equal exactly when no group id is in more than one of the       *)
(* lane's hour sets.                                                       *)
C7_TotalVsHourlySum ==
    (CountingOver /\ script = "v35") =>
        \A l \in Lanes :
            LET total == Unscaled(out_layer[l].total_cnt)
                sum == SumTo([hr \in Hours |-> Unscaled(out_layer[l].h[hr])],
                             23)
            IN  /\ total <= sum
                /\ (total = sum) <=> HourSetsDisjoint(l)

\* a group crossed one lane in two hours: total 1, hourly sum 2
C7_Witness ==
    /\ pc = "done"
    /\ script = "v35"
    /\ \E l \in Lanes :
          /\ ~HourSetsDisjoint(l)
          /\ Unscaled(out_layer[l].total_cnt) = 1
          /\ SumTo([hr \in Hours |-> Unscaled(out_layer[l].h[hr])], 23) = 2

\* the equality case of C7: two groups in two different hours of one lane
C7_WitnessEqual ==
    /\ pc = "done"
    /\ script = "v35"
    /\ \E l \in Lanes :
          /\ HourSetsDisjoint(l)
          /\ Unscaled(out_layer[l].total_cnt) = 2
          /\ \E h1, h2 \in Hours :
                h1 # h2 /\ counts_map[l][h1] # {} /\ counts_map[l][h2] # {}

----------------------------------------------------------------------------
(* Sampler properties *)

\* native:extractbyexpression has run
Sampled ==
    pc \in {"buffer", "simplify", "dissolve", "split", "prepare", "index",
            "count", "save", "done"}

\* WINDOWS = [(6, 9), (16, 19)], in seconds
RefInWindow(sec) ==
    \/ sec >= 21600 /\ sec < 32400
    \/ sec >= 57600 /\ sec < 68400

Selected == {extracted[j] : j \in 1..Len(extracted)}

InWindowRecords ==
    {i \in 1..Len(working_layer) : RefInWindow(working_layer[i].seconds_start)}

C9_CeilOfInWindow ==
    Sampled =>
        Len(extracted)
            = (Cardinality(InWindowRecords) + SAMPLING_RATE - 1)
                  \div SAMPLING_RATE

(* C10: an empty sample is fatal: the run never ends in the success state  *)
(* with zero lanes and writes no output file.                              *)
C10_EmptySampleFatal ==
    (Sampled /\ Len(extracted) = 0) =>
        (pc # "done" /\ message # "SUCCESS" /\ outputs = {})

----------------------------------------------------------------------------
(* Fatal input errors *)

\* no Lane Builder layer, lane record, count or output file exists
NothingBuilt ==
    /\ extracted = <<>> /\ buffered = <<>> /\ simplified = <<>>
    /\ dissolved = <<>> /\ lanes_layer = <<>> /\ out_layer = <<>>
    /\ spatial_index = {} /\ counts_map = <<>> /\ outputs = {}

(* C11: Geographic CRS is rejected before buffering.  If the trajectory    *)
(* layer or the intersection layer has a geographic CRS, the run never     *)
(* gets past loading: it ends with an error line (the CRS error when both  *)
(* layers load), and no sample, buffer, lane, count or output file exists. *)
C11_GeographicRejected ==
    (traj_file = "geographic" \/ inter_file = "geographic") =>
        /\ pc \in {"load", "aborted"}
        /\ NothingBuilt
        /\ pc = "aborted" =>
              /\ message \notin {"", "SUCCESS"}
              /\ (traj_file \in {"geographic", "metric"}
                     /\ inter_file \in {"geographic", "metric"})
                    => message = "ERROR: layers must be in a metric CRS"

\* only the intersection layer is geographic and the run has stopped
C11_Witness ==
    /\ pc = "aborted"
    /\ traj_file = "metric"
    /\ inter_file = "geographic"
    /\ message = "ERROR: layers must be in a metric CRS"
    /\ NothingBuilt

(* C12: Missing or unloadable inputs abort with no partial output.  If the *)
(* trajectory or intersection file is absent or fails to load, or clipping *)
(* is on and the study-area file is absent or invalid, main returns before *)
(* any lane geometry is built and no output file is written.               *)
C12_MissingInputsAbort ==
    (\/ traj_file \in {"missing", "invalid"}
     \/ inter_file \in {"missing", "invalid"}
     \/ CLIP_TO_STUDY_AREA /\ area_file \in {"missing", "invalid"}) =>
        /\ pc \in {"load", "clip", "aborted"}
        /\ pc = "clip" =>
              (traj_file = "metric" /\ inter_file = "metric")
        /\ NothingBuilt

\* the main layers were loaded, the study area failed to load, main returned
C12_Witness ==
    /\ pc = "aborted"
    /\ CLIP_TO_STUDY_AREA
    /\ area_file = "invalid"
    /\ message = "ERROR: study area layer failed to load"
    /\ traj_layer # <<>>
    /\ NothingBuilt

\* the intersection file exists but does not load
C12_WitnessMainLayer ==
    /\ pc = "aborted"
    /\ traj_file = "metric"
    /\ inter_file = "invalid"
    /\ message = "ERROR: could not load layers"
    /\ NothingBuilt

----------------------------------------------------------------------------
(* The counting pass and the collection it reads *)

\* the records of the working collection that the Sampler did not select
Unsampled ==
    {i \in 1..Len(working_layer) :
        \A j \in 1..Len(extracted) : extracted[j] # working_layer[i]}

(* C13: Counting uses the full collection, not the sample.  The loop       *)
(* visits the records of the working collection one by one, each once      *)
(* (step counts them and ends at the length of the collection), so after   *)
(* the loop every record with geometry and an hour in 0..23, sampled or    *)
(* not, has its group in the set of every lane it intersects at its start  *)
(* hour.                                                                   *)
C13_FullCollection ==
    /\ Counted => step \in 0..Len(working_layer)
    /\ CountingOver =>
          /\ step = Len(working_layer)
          /\ \A i \in 1..Len(working_layer), l \in Lanes, hr \in 0..23 :
                Crosses(i, l, hr) =>
                    working_layer[i].group_id \in counts_map[l][hr]

\* a record that starts outside every window is the only one crossing a
\* lane in its hour, and the lane counts it
C13_Witness ==
    /\ pc = "done"
    /\ \E i \in Unsampled, l \in Lanes, hr \in 0..23 :
          /\ ~RefInWindow(working_layer[i].seconds_start)
          /\ Crosses(i, l, hr)
          /\ \A j \in 1..Len(working_layer) : Crosses(j, l, hr) => j = i
          /\ counts_map[l][hr] = {working_layer[i].group_id}
          /\ out_layer[l].h[hr] > 0

\* a record inside a window whose id is no multiple of the stride is the
\* only one of its group, and the lane it crosses counts the group
C13_WitnessStride ==
    /\ pc = "done"
    /\ \E i \in Unsampled, l \in Lanes, hr \in 0..23 :
          /\ RefInWindow(working_layer[i].seconds_start)
          /\ working_layer[i].fid % SAMPLING_RATE # 0
          /\ Crosses(i, l, hr)
          /\ \A j \in 1..Len(working_layer) :
                j # i => working_layer[j].group_id # working_layer[i].group_id
          /\ working_layer[i].group_id \in counts_map[l][hr]

\* the loop is about to visit a record without geometry
AtEmptyRecord ==
    /\ pc = "count"
    /\ step < Len(working_layer)
    /\ working_layer[step + 1].geom = {}

\* no cell holds a group that only records without geometry carry, and
\* every record behind a record without geometry is counted
EmptyRecordsLeaveNoTrace ==
    CountingOver =>
        \A i \in 1..Len(working_layer) :
            working_layer[i].geom = {} =>
                /\ \A l \in Lanes, hr \in 0..23 :
                      working_layer[i].group_id \in counts_map[l][hr] =>
                          \E j \in 1..Len(working_layer) :
                              /\ Crosses(j, l, hr)
                              /\ working_layer[j].group_id =
                                     working_layer[i].group_id
                /\ \A j \in (i + 1)..Len(working_layer) :
                      \A l \in Lanes, hr \in 0..23 :
                          Crosses(j, l, hr) =>
                              working_layer[j].group_id \in counts_map[l][hr]

(* C14: Empty geometry is a recoverable per-record skip.  The visit of a   *)
(* record without geometry changes no (lane, hour) set, prints nothing and *)
(* leaves the run in the loop at the next record; after the loop the       *)
(* records behind it are counted as usual and its group is in no set it    *)
(* did not get from another record.                                        *)
C14_EmptySkipped ==
    /\ []EmptyRecordsLeaveNoTrace
    /\ [][AtEmptyRecord =>
             /\ counts_map' = counts_map
             /\ step' = step + 1
             /\ pc' = "count"
             /\ message' = message
             /\ outputs' = outputs]_vars

\* a record without geometry came first, the record behind it was counted,
\* and the run ended with SUCCESS
C14_Witness ==
    /\ pc = "done"
    /\ message = "SUCCESS"
    /\ Len(working_layer) = 2
    /\ working_layer[1].geom = {}
    /\ working_layer[1].group_id # working_layer[2].group_id
    /\ \E l \in Lanes, hr \in 0..23 :
          /\ Crosses(2, l, hr)
          /\ counts_map[l][hr] = {working_layer[2].group_id}
          /\ out_layer[l].h[hr] > 0

----------------------------------------------------------------------------
(* The study-area pre-filter *)

RECURSIVE RefClip(_, _, _)
\* the records of a layer that share a cell with the area, in layer order,
\* cut to the area and numbered from n
RefClip(layer, area, n) ==
    IF layer = <<>> THEN <<>>
    ELSE IF Head(layer).geom \cap area = {}
         THEN RefClip(Tail(layer), area, n)
         ELSE <<[fid |-> n,
                 seconds_start |-> Head(layer).seconds_start,
                 group_id |-> Head(layer).group_id,
                 geom |-> Head(layer).geom \cap area]>>
              \o RefClip(Tail(layer), area, n + 1)

\* the collection both stages have to read
RefWorking ==
    IF CLIP_TO_STUDY_AREA THEN RefClip(traj_layer, area_layer, 1)
    ELSE traj_layer

PastClip ==
    pc \in {"extract", "buffer", "simplify", "dissolve", "split", "prepare",
            "index", "count", "save", "done"}

\* the groups of the first n records of w that cross lane l in hour hr
RefCell(w, n, l, hr) ==
    {w[i].group_id :
        i \in {k \in 1..n : /\ w[k].geom # {}
                            /\ w[k].seconds_start \div 3600 = hr
                            /\ w[k].geom \cap out_layer[l].geom # {}}}

(* C15: The study-area pre-filter applies to the whole pipeline.  With     *)
(* CLIP_TO_STUDY_AREA on, the sample of the Lane Builder and the counts    *)
(* are those of the clipped trajectory collection; with it off, those of   *)
(* the raw trajectory layer: both stages read the same collection.         *)
C15_OneWorkingCollection ==
    PastClip =>
        LET w == RefWorking
        IN  /\ working_layer = w
            /\ Sampled =>
                  /\ \A j \in 1..Len(extracted) :
                        \E i \in 1..Len(w) : extracted[j] = w[i]
                  /\ \A i \in 1..Len(w) :
                        (RefInWindow(w[i].seconds_start)
                            /\ w[i].fid % SAMPLING_RATE = 0)
                        => w[i] \in Selected
            /\ Counted =>
                  /\ step <= Len(w)
                  /\ \A l \in Lanes, hr \in 0..23 :
                        counts_map[l][hr] = RefCell(w, step, l, hr)

\* the records the sampling expression would select in the raw layer
RawSelection ==
    {traj_layer[i] :
        i \in {k \in 1..Len(traj_layer) :
                  /\ RefInWindow(traj_layer[k].seconds_start)
                  /\ traj_layer[k].fid % SAMPLING_RATE = 0}}

\* clipping is on, the clipped and the raw layer give different samples,
\* and the lanes of the clipped sample have counts
C15_Witness ==
    /\ pc = "done"
    /\ CLIP_TO_STUDY_AREA
    /\ Selected # {}
    /\ RawSelection # {}
    /\ Selected \cap RawSelection = {}
    /\ \E l \in Lanes, hr \in 0..23 : counts_map[l][hr] # {}

\* clipping is off in the script that can clip
C15_WitnessOff ==
    /\ pc = "done"
    /\ script = "v1"
    /\ ~CLIP_TO_STUDY_AREA
    /\ working_layer = traj_layer
    /\ Selected # {}
    /\ \E l \in Lanes, hr \in 0..23 : counts_map[l][hr] # {}

----------------------------------------------------------------------------
(* Lane ids *)

RECURSIVE DecimalValue(_)
\* the number a sequence of decimal digits stands for
DecimalValue(d) ==
    IF d = <<>> THEN 0
    ELSE 10 * DecimalValue(SubSeq(d, 1, Len(d) - 1)) + d[Len(d)]

\* the lane records of a layer carry the ids 000001, 000002, ... in order
SequentialIds(layer) ==
    \A l \in 1..Len(layer) :
        /\ Len(layer[l].ENVIID) = 6
        /\ \A k \in 1..6 : layer[l].ENVIID[k] \in 0..9
        /\ DecimalValue(layer[l].ENVIID) = l

UniqueIds(layer) ==
    \A l, m \in 1..Len(layer) : layer[l].ENVIID = layer[m].ENVIID => l = m

LaneIdsOk ==
    /\ SequentialIds(out_layer)
    /\ UniqueIds(out_layer)
    /\ Len(out_layer) = Len(lanes_layer) \/ out_layer = <<>>
    /\ \A o \in outputs : SequentialIds(o.features) /\ UniqueIds(o.features)

(* C16: Lane ids are unique, sequential and zero-padded.  The i-th lane    *)
(* polygon (0-based, in the order of the split output) has the id i+1      *)
(* written with 6 digits; no two lanes share an id, in the layer and in    *)
(* the written files; once the lane records exist no step of the run adds, *)
(* removes or renames one.                                                 *)
C16_LaneIds ==
    /\ []LaneIdsOk
    /\ [][out_layer # <<>> =>
             /\ Len(out_layer') = Len(out_layer)
             /\ \A l \in 1..Len(out_layer) :
                   out_layer'[l].ENVIID = out_layer[l].ENVIID]_vars

\* two lanes, 000001 and 000002, kept through counting, finalization and
\* the save
C16_Witness ==
    /\ pc = "done"
    /\ Len(out_layer) = 2
    /\ out_layer[1].ENVIID = <<0, 0, 0, 0, 0, 1>>
    /\ out_layer[2].ENVIID = <<0, 0, 0, 0, 0, 2>>
    /\ out_layer[1].geom = lanes_layer[1]
    /\ out_layer[2].geom = lanes_layer[2]
    /\ \E o \in outputs : o.features[2].ENVIID = <<0, 0, 0, 0, 0, 2>>

----------------------------------------------------------------------------
(* Written counts *)

\* the lanes the single record of the collection intersects
LanesOfFirst ==
    {l \in Lanes : working_layer[1].geom \cap out_layer[l].geom # {}}

\* one trajectory, starting at 07:00, crossing exactly one lane
SingleTrajectory ==
    /\ Len(working_layer) = 1
    /\ working_layer[1].seconds_start = 25200
    /\ Cardinality(LanesOfFirst) = 1

\* every cell of the layer no record qualified for is 0
ZeroDefault(layer) ==
    \A l \in 1..Len(layer), hr \in 0..23 :
        (\A i \in 1..Len(working_layer) : ~Crosses(i, l, hr))
            => layer[l].h[hr] = 0

(* C17: Single-trajectory scenario and zero default.  With one trajectory  *)
(* (start 25200 s, hour 7) that crosses exactly one lane, that lane ends   *)
(* with h_7 = 1, or SCALING_FACTOR when scaling is on, and every other     *)
(* cell of the layer is 0.  In general the lane records are created with   *)
(* 24 zeros and every cell no trajectory qualified for is written as 0,    *)
(* lanes that nothing intersects included.                                 *)
C17_SingleAndZeroDefault ==
    /\ pc \in {"index", "count"} =>
          \A l \in Lanes, hr \in 0..23 : out_layer[l].h[hr] = 0
    /\ CountingOver =>
          /\ ZeroDefault(out_layer)
          /\ \A o \in outputs : ZeroDefault(o.features)
          /\ SingleTrajectory =>
                \A l \in Lanes, hr \in 0..23 :
                    out_layer[l].h[hr] =
                        IF l \in LanesOfFirst /\ hr = 7
                        THEN (IF SCALING_ENABLED THEN SCALING_FACTOR ELSE 1)
                        ELSE 0

\* the scenario, unscaled: h_7 = 1 in the written files
C17_Witness ==
    /\ pc = "done"
    /\ SingleTrajectory
    /\ ~SCALING_ENABLED
    /\ \E l \in Lanes :
          /\ out_layer[l].h[7] = 1
          /\ \A o \in outputs : o.features[l].h[7] = 1
          /\ \A hr \in 0..23 : hr # 7 => out_layer[l].h[hr] = 0

\* the scenario, scaled: h_7 = SCALING_FACTOR
C17_WitnessScaled ==
    /\ pc = "done"
    /\ SingleTrajectory
    /\ SCALING_ENABLED
    /\ \E l \in Lanes : out_layer[l].h[7] = 5

\* a lane no trajectory intersects, although a trajectory with geometry
\* was visited: 24 zeros in the written files
C17_WitnessUntouchedLane ==
    /\ pc = "done"
    /\ \E i \in 1..Len(working_layer) : working_layer[i].geom # {}
    /\ \E l \in Lanes :
          /\ \A i \in 1..Len(working_layer), hr \in 0..23 : ~Crosses(i, l, hr)
          /\ \A o \in outputs, hr \in 0..23 : o.features[l].h[hr] = 0

\* no hourly count of the layer is negative
NonNegative(layer) ==
    \A l \in 1..Len(layer), hr \in 0..23 :
        layer[l].h[hr] \in Nat

(* C18: Non-negativity.  In every state of a run, from the creation of the *)
(* lane records through counting to the written files, every hourly count  *)
(* of every lane is >= 0, and so is the unscaled size of every (lane,      *)
(* hour) set.                                                              *)
C18_NonNegative ==
    /\ NonNegative(out_layer)
    /\ \A o \in outputs : NonNegative(o.features)
    /\ Counted =>
          \A l \in Lanes, hr \in 0..23 : Cardinality(counts_map[l][hr]) >= 0

\* written files with a scaled count next to cells that stayed 0
C18_Witness ==
    /\ pc = "done"
    /\ \E o \in outputs, l \in Lanes, hr, h0 \in 0..23 :
          /\ o.features[l].h[hr] = 5
          /\ o.features[l].h[h0] = 0

\* in the middle of the counting pass: a set is filled, the written counts
\* are still the zeros of the lane creation
C18_WitnessCounting ==
    /\ pc = "count"
    /\ 0 < step /\ step < Len(working_layer)
    /\ \E l \in Lanes, hr \in 0..23 :
          /\ counts_map[l][hr] # {}
          /\ out_layer[l].h[hr] = 0

----------------------------------------------------------------------------
(* The written counts as a function of the inputs and the configuration *)

\* the geometries of the records the sampling expression selects
RefSampleGeoms ==
    {RefWorking[i].geom :
        i \in {k \in 1..Len(RefWorking) :
                  /\ RefInWindow(RefWorking[k].seconds_start)
                  /\ RefWorking[k].fid % SAMPLING_RATE = 0}}

RefCovered == UNION RefSampleGeoms

\* cells c <= d lie in one lane: covered all the way, no line in between
RefSameLane(c, d) ==
    \A k \in c..d : k \in RefCovered /\ (k < d => k \notin inter_layer)

RefPieces ==
    IF RefSampleGeoms = {} THEN {}
    ELSE IF RefCovered = {} THEN {{}}
    ELSE {{d \in RefCovered : IF c <= d THEN RefSameLane(c, d)
                                          ELSE RefSameLane(d, c)} :
             c \in RefCovered}

\* the l-th lane: l - 1 lanes lie before it
RefLaneGeom(l) ==
    CHOOSE p \in RefPieces :
        Cardinality({q \in RefPieces : \E x \in q : \A y \in p : x < y})
            = l - 1

RefGroups(l, hr) ==
    {RefWorking[i].group_id :
        i \in {k \in 1..Len(RefWorking) :
                  /\ RefWorking[k].geom # {}
                  /\ RefWorking[k].seconds_start \div 3600 = hr
                  /\ RefWorking[k].geom \cap RefLaneGeom(l) # {}}}

RefFactor == IF SCALING_ENABLED THEN 5 ELSE 1

\* the counts of a written layer are those the inputs determine
DeterminedByInputs(layer) ==
    /\ Len(layer) = Cardinality(RefPieces)
    /\ \A l \in 1..Len(layer) :
          /\ \A hr \in 0..23 :
                layer[l].h[hr] = Cardinality(RefGroups(l, hr)) * RefFactor
          /\ script = "v35" =>
                layer[l].total_cnt =
                    Cardinality(UNION {RefGroups(l, hr) : hr \in 0..23})
                        * RefFactor

(* C19: Determinism.  The h_0..h_23 (and total_cnt) of every lane in the   *)
(* finalized layer and in both written files are a function of the         *)
(* trajectory collection, the intersection collection, the study area and  *)
(* the configuration alone: two runs from the same inputs end with the     *)
(* same values, whatever order candidates, sets or maps were walked in.    *)
C19_Determinism ==
    CountingOver =>
        /\ DeterminedByInputs(out_layer)
        /\ \A o \in outputs : DeterminedByInputs(o.features)

\* two lanes, two trips in the same hour on both, total_cnt written
C19_Witness ==
    /\ pc = "done"
    /\ script = "v35"
    /\ Len(out_layer) = 2
    /\ \A o \in outputs, l \in 1..2 :
          /\ o.features[l].h[7] = 2 * RefFactor
          /\ o.features[l].total_cnt = 2 * RefFactor

----------------------------------------------------------------------------
(* Order of the counting pass *)

\* the accumulator before the first record
EmptyCounts == [l \in Lanes |-> [hr \in 0..23 |-> {}]]

\* the orders in which the records of the working collection can be visited
Orders ==
    {o \in [1..Len(working_layer) -> 1..Len(working_layer)] :
        \A a, b \in 1..Len(working_layer) : o[a] = o[b] => a = b}

RECURSIVE CountInOrder(_, _, _)
\* the loop body applied to the records order[k], order[k+1], ...
CountInOrder(cmap, order, k) ==
    IF k > Len(working_layer) THEN cmap
    ELSE CountInOrder(CountOne(cmap, working_layer[order[k]]), order, k + 1)

RECURSIVE CountBatch(_, _, _)
\* the loop body applied to the records of one batch, from record k on
CountBatch(cmap, batch, k) ==
    IF k > Len(working_layer) THEN cmap
    ELSE CountBatch(IF k \in batch THEN CountOne(cmap, working_layer[k])
                                   ELSE cmap,
                    batch, k + 1)

\* two accumulators merged cell by cell by set union
MergeCounts(a, b) ==
    [l \in Lanes |-> [hr \in 0..23 |-> a[l][hr] \cup b[l][hr]]]

(* C20: Order independence of counting.  For the lanes of the run, the     *)
(* (lane, hour) -> set of group ids accumulator the loop ends with is the  *)
(* one every other visiting order of the trajectories ends with, and the   *)
(* one obtained by counting any two batches apart and merging them by set  *)
(* union.                                                                  *)
C20_OrderIndependent ==
    CountingOver =>
        /\ \A o \in Orders : CountInOrder(EmptyCounts, o, 1) = counts_map
        /\ \A batch \in SUBSET (1..Len(working_layer)) :
              MergeCounts(
                  CountBatch(EmptyCounts, batch, 1),
                  CountBatch(EmptyCounts,
                             (1..Len(working_layer)) \ batch, 1))
                  = counts_map

\* two records of different trips fall into the same cell: the order in
\* which they are added is the order a set forgets
C20_Witness ==
    /\ pc = "done"
    /\ Len(working_layer) = 2
    /\ \E l \in Lanes, hr \in 0..23 :
          /\ Crosses(1, l, hr)
          /\ Crosses(2, l, hr)
          /\ working_layer[1].group_id # working_layer[2].group_id
          /\ Cardinality(counts_map[l][hr]) = 2
    /\ Cardinality(Orders) = 2

----------------------------------------------------------------------------
(* Order of the stages *)

StageOrder ==
    <<"extract", "buffer", "simplify", "dissolve", "split", "prepare",
      "index", "count", "save", "done">>

\* the position of a control point in the pipeline; 0 outside of it
StageNo(p) ==
    IF \E k \in 1..Len(StageOrder) : StageOrder[k] = p
    THEN CHOOSE k \in 1..Len(StageOrder) : StageOrder[k] = p
    ELSE 0

\* cells c <= d of G are not separated by a gap or a line
Unsplit(c, d, G) ==
    \A k \in c..d : k \in G /\ (k < d => k \notin inter_layer)

\* the parts native:splitwithlines has to make of one polygon
PartsOf(G) ==
    IF G = {} THEN {{}}
    ELSE {{d \in G : IF c <= d THEN Unsplit(c, d, G) ELSE Unsplit(d, c, G)} :
             c \in G}

\* lanes is the split of the layer polys, parts in order along the line
IsSplitOf(lanes, polys) ==
    LET parts == UNION {PartsOf(polys[i]) : i \in 1..Len(polys)}
    IN  /\ Len(lanes) = Cardinality(parts)
        /\ \A l \in 1..Len(lanes) : lanes[l] \in parts
        /\ \A l, m \in 1..Len(lanes) :
              l < m => \E x \in lanes[l] : \A y \in lanes[m] : x < y

\* each stage that has run holds the image of its predecessor's output,
\* each stage that has not run holds nothing
StagesChained ==
    LET n == StageNo(pc)
    IN  n > 0 =>
          /\ IF n >= 2 THEN Sampled ELSE extracted = <<>>
          /\ IF n >= 3
             THEN buffered = [i \in 1..Len(extracted) |-> extracted[i].geom]
             ELSE buffered = <<>>
          /\ IF n >= 4 THEN simplified = buffered ELSE simplified = <<>>
          /\ IF n >= 5
             THEN dissolved =
                      IF simplified = <<>> THEN <<>>
                      ELSE <<UNION {simplified[i] : i \in 1..Len(simplified)}>>
             ELSE dissolved = <<>>
          /\ IF n >= 6 THEN IsSplitOf(lanes_layer, dissolved)
                       ELSE lanes_layer = <<>>
          /\ IF n >= 7
             THEN /\ Len(out_layer) = Len(lanes_layer)
                  /\ \A l \in Lanes : out_layer[l].geom = lanes_layer[l]
             ELSE out_layer = <<>>
          /\ IF n >= 8 THEN counts_map # <<>> \/ out_layer = <<>>
                       ELSE counts_map = <<>> /\ spatial_index = {}
          /\ IF n >= 10 THEN outputs # {} ELSE outputs = {}

(* C21: Stage ordering of a successful run.  The stages run in the order   *)
(* sample, buffer, simplify, dissolve, split, lane records, spatial index, *)
(* counting, finalization, save: the control point only ever moves to the  *)
(* next stage, each Lane Builder layer is the image of the layer of the    *)
(* stage before it, and a stage that has not run yet has produced nothing. *)
C21_StageOrder ==
    /\ []StagesChained
    /\ [][(StageNo(pc) > 0 /\ pc' # pc) =>
             StageNo(pc') = StageNo(pc) + 1]_vars

\* a run that went through all stages and made two lanes of one buffer
C21_Witness ==
    /\ pc = "done"
    /\ message = "SUCCESS"
    /\ Len(extracted) = 1
    /\ Len(dissolved) = 1
    /\ Len(lanes_layer) = 2
    /\ lanes_layer[1] \cup lanes_layer[2] = dissolved[1]
    /\ outputs # {}

----------------------------------------------------------------------------
(* The spatial index and the lane store *)

IndexedLanes == {e.id : e \in spatial_index}

LanesWithGeometry == {l \in Lanes : out_layer[l].geom # {}}

\* nothing creates, removes or renames a lane, or touches the index or the
\* key set of the accumulator, once counting has begun
LanesFrozen ==
    Counted =>
        /\ Len(out_layer') = Len(out_layer)
        /\ \A l \in Lanes :
              /\ out_layer'[l].ENVIID = out_layer[l].ENVIID
              /\ out_layer'[l].geom = out_layer[l].geom
        /\ spatial_index' = spatial_index
        /\ DOMAIN counts_map' = DOMAIN counts_map

\* the index is written by one step only, the one between the creation of
\* the lane records and the first visit of the counting loop
IndexBuiltOnce ==
    spatial_index' # spatial_index =>
        /\ pc = "index" /\ pc' = "count"
        /\ spatial_index = {}
        /\ step' = 0
        /\ Len(out_layer) = Len(lanes_layer)
        /\ out_layer' = out_layer

(* C22 as stated: during counting the index, the lane store and the key    *)
(* set of the accumulator range over the same set of lanes.                *)
C22_SameLaneSet ==
    Counted => (IndexedLanes = Lanes /\ DOMAIN counts_map = Lanes)

(* C22, amended: the spatial index is built once, after all lane records   *)
(* are in the lane store and before the first counting query; afterwards   *)
(* no lane is created, removed or re-identified.  During counting the lane *)
(* store and the key set of the accumulator range over all lanes, and the  *)
(* index over exactly the lanes that have a geometry.                      *)
C22_IndexOverFinalLanes ==
    /\ [](Counted => /\ DOMAIN counts_map = Lanes
                     /\ IndexedLanes = LanesWithGeometry)
    /\ [](~Counted => spatial_index = {})
    /\ [][IndexBuiltOnce /\ LanesFrozen]_vars

\* two lanes, both in the index, in the middle of the counting pass
C22_Witness ==
    /\ pc = "count"
    /\ step > 0
    /\ Len(out_layer) = 2
    /\ IndexedLanes = {1, 2}
    /\ DOMAIN counts_map = {1, 2}

\* a lane record without geometry: in the store and the accumulator, not
\* in the index
C22_WitnessNoGeometry ==
    /\ pc = "count"
    /\ Lanes = {1}
    /\ DOMAIN counts_map = {1}
    /\ out_layer[1].geom = {}
    /\ IndexedLanes = {}

\* a step of the counting pass: the loop is entered and not left
CountingStep == pc = "count" /\ pc' = "count"

(* C23: Counting leaves lanes and index unchanged.  A step of the counting *)
(* pass changes the accumulator and the progress counter and nothing else: *)
(* lane geometries, lane ids, the stored h_0..h_23 and the spatial index   *)
(* stay as they were, so that up to finalization the stored counts are the *)
(* zeros of the lane creation.                                             *)
C23_CountingFrame ==
    /\ [](pc = "count" =>
             /\ \A l \in Lanes :
                   /\ out_layer[l].geom = lanes_layer[l]
                   /\ \A hr \in 0..23 : out_layer[l].h[hr] = 0
             /\ IndexedLanes = LanesWithGeometry)
    /\ [][CountingStep =>
             /\ out_layer' = out_layer
             /\ spatial_index' = spatial_index
             /\ lanes_layer' = lanes_layer
             /\ working_layer' = working_layer
             /\ outputs' = outputs
             /\ step' = step + 1]_vars

\* the loop has visited every record and filled a set; lanes, stored
\* counts and index are those of the start of counting
C23_Witness ==
    /\ pc = "count"
    /\ step = Len(working_layer)
    /\ step = 2
    /\ \E l \in Lanes, hr \in 0..23 :
          /\ counts_map[l][hr] # {}
          /\ out_layer[l].h[hr] = 0
          /\ l \in IndexedLanes

----------------------------------------------------------------------------
(* Failures of the geometry library *)

(* C24 as stated: per-pair geometry errors are isolated.  When the exact   *)
(* intersection test fails for one trajectory/lane pair, the step that     *)
(* meets the failure prints a line about it and stays in the counting      *)
(* loop, and no run with a failed pair ends anywhere but in the written    *)
(* output.                                                                 *)
C24_PairErrorsIsolated ==
    /\ [](failed # {} => pc \in {"count", "save", "done"})
    /\ [][failed' # failed =>
             /\ message' # message
             /\ pc' = "count"
             /\ step' = step + 1]_vars

----------------------------------------------------------------------------
(* Finalization and save *)

\* the counts of a layer are those of the whole working collection
CompleteCounts(layer) ==
    /\ Len(layer) = Len(out_layer)
    /\ \A l \in 1..Len(layer), hr \in 0..23 :
          layer[l].h[hr] =
              Cardinality(RefCell(working_layer, Len(working_layer), l, hr))
                  * RefFactor

(* C25: No partial counts are emitted.  Finalization reads the accumulator *)
(* only after the loop has visited every trajectory, and the files are     *)
(* written only after every lane has its final attributes: the stored      *)
(* counts leave their zeros only at the end of the loop, and a written     *)
(* file always carries the counts of the whole collection, never those of  *)
(* a prefix.                                                               *)
C25_NoPartialCounts ==
    /\ [](CountingOver =>
             /\ step = Len(working_layer)
             /\ CompleteCounts(out_layer))
    /\ [](\A o \in outputs : pc = "done" /\ CompleteCounts(o.features))
    /\ [](outputs # {} => pc = "done")
    /\ [][(Counted /\ out_layer' # out_layer) =>
             /\ step = Len(working_layer)
             /\ pc = "count" /\ pc' = "save"
             /\ outputs' = {}]_vars

\* the written count of a cell is 2 trips: the count after the first of
\* the two records would have been 1
C25_Witness ==
    /\ pc = "done"
    /\ Len(working_layer) = 2
    /\ ~SCALING_ENABLED
    /\ \E l \in Lanes, hr \in 0..23 :
          /\ Cardinality(RefCell(working_layer, 1, l, hr)) = 1
          /\ \A o \in outputs : o.features[l].h[hr] = 2

----------------------------------------------------------------------------
(* The two scripts *)

\* lanes, ids and hourly counts of a layer are those the inputs and the
\* configuration determine, whichever script made the layer
LanesAsDetermined(layer) ==
    /\ Len(layer) = Cardinality(RefPieces)
    /\ SequentialIds(layer)
    /\ \A l \in 1..Len(layer) :
          /\ layer[l].geom = RefLaneGeom(l)
          /\ \A hr \in 0..23 :
                layer[l].h[hr] = Cardinality(RefGroups(l, hr)) * RefFactor
          /\ DOMAIN layer[l] =
                 IF script = "v35" THEN {"ENVIID", "geom", "h", "total_cnt"}
                                   ELSE {"ENVIID", "geom", "h"}

(* C26: The two script versions agree on hourly counts.  With clipping     *)
(* off, the lanes, their ids and their h_0..h_23 are in both scripts the   *)
(* same function of the inputs and the configuration; the only difference  *)
(* is the total_cnt attribute, which the v3.5 script writes and the other  *)
(* one does not have.                                                      *)
C26_ScriptsAgree ==
    (CountingOver /\ ~CLIP_TO_STUDY_AREA) =>
        /\ LanesAsDetermined(out_layer)
        /\ \A o \in outputs : LanesAsDetermined(o.features)

\* the v3.5 script wrote two lanes with a count and a total
C26_Witness ==
    /\ pc = "done"
    /\ script = "v35"
    /\ Len(out_layer) = 2
    /\ \A o \in outputs, l \in 1..2 :
          /\ o.features[l].h[7] = RefFactor
          /\ o.features[l].total_cnt = RefFactor

\* the other script, clipping off, wrote the same two lanes and counts
\* and no total
C26_WitnessV1 ==
    /\ pc = "done"
    /\ script = "v1"
    /\ ~CLIP_TO_STUDY_AREA
    /\ Len(out_layer) = 2
    /\ \A o \in outputs, l \in 1..2 :
          /\ o.features[l].h[7] = RefFactor
          /\ "total_cnt" \notin DOMAIN o.features[l]

----------------------------------------------------------------------------
(* The effect of one record *)

\* what the visit of record number step + 1 may change: nothing but the
\* sets (lane, H) of the lanes it intersects, H its start hour, and there
\* nothing but the presence of its own group
OwnColumnOnly ==
    LET traj == working_layer[step + 1]
        H    == traj.seconds_start \div 3600
    IN  \A l \in Lanes, hr \in 0..23 :
            /\ (hr # H \/ traj.geom \cap out_layer[l].geom = {})
                   => counts_map'[l][hr] = counts_map[l][hr]
            /\ counts_map[l][hr] \subseteq counts_map'[l][hr]
            /\ counts_map'[l][hr] \subseteq
                   counts_map[l][hr] \cup {traj.group_id}

(* C27: A record touches only its own start-hour column.  The visit of a   *)
(* record with start hour H adds its group_id to sets keyed (lane, H) of   *)
(* lanes it intersects and changes nothing else: the sets of every other   *)
(* hour, and all sets of every lane it does not intersect, stay as they    *)
(* were.                                                                   *)
C27_OwnHourColumn ==
    [][(CountingStep /\ step < Len(working_layer)) => OwnColumnOnly]_vars

\* after the first record, which crosses a lane at 07:00, the lane has that
\* one group in hour 7 and nothing in any other hour
C27_Witness ==
    /\ pc = "count"
    /\ step = 1
    /\ working_layer[1].seconds_start = 25200
    /\ \E l \in Lanes :
          /\ working_layer[1].geom \cap out_layer[l].geom # {}
          /\ counts_map[l][7] = {working_layer[1].group_id}
          /\ \A hr \in 0..23 : hr # 7 => counts_map[l][hr] = {}

\* a record whose bounding box meets the lane but whose geometry does not
\* has been visited: the lane has the other record's group only
C27_WitnessOtherLane ==
    /\ pc = "count"
    /\ step = 2
    /\ working_layer[2].geom = {1, 3}
    /\ working_layer[2].seconds_start = 25200
    /\ Len(out_layer) = 1
    /\ out_layer[1].geom = {2}
    /\ working_layer[1].group_id # working_layer[2].group_id
    /\ counts_map[1][7] = {working_layer[1].group_id}

----------------------------------------------------------------------------
(* The edges of the sampling windows *)

\* the one trajectory of the layer
OnlyRecord == working_layer[1]

\* 06:00 <= start < 09:00 or 16:00 <= start < 19:00, in seconds
InSomeWindow(sec) ==
    \/ (6 * 3600 <= sec /\ sec < 9 * 3600)
    \/ (16 * 3600 <= sec /\ sec < 19 * 3600)

(* C28: Sampling windows are half-open in seconds.  A trajectory is        *)
(* in-window iff s*3600 <= seconds_start < e*3600 for at least one window  *)
(* (s, e): a trajectory that passes the stride is selected iff that holds, *)
(* so a start at exactly s*3600 is selected and a start at exactly e*3600  *)
(* is not.                                                                 *)
C28_HalfOpenWindows ==
    (Sampled /\ Len(working_layer) = 1) =>
        /\ (OnlyRecord \in Selected) <=>
               (/\ InSomeWindow(OnlyRecord.seconds_start)
                /\ OnlyRecord.fid % SAMPLING_RATE = 0)
        /\ (OnlyRecord.fid % SAMPLING_RATE = 0
              /\ OnlyRecord.seconds_start \in {21600, 57600})
               => extracted = <<OnlyRecord>>
        /\ OnlyRecord.seconds_start \in {32400, 68400} => extracted = <<>>

\* a start at 06:00:00 sharp is selected
C28_Witness ==
    /\ pc = "buffer"
    /\ Len(working_layer) = 1
    /\ OnlyRecord.seconds_start = 21600
    /\ extracted = <<OnlyRecord>>

\* a start at 09:00:00 sharp passes the stride and is not selected
C28_WitnessEndExcluded ==
    /\ pc = "buffer"
    /\ Len(working_layer) = 1
    /\ OnlyRecord.seconds_start = 32400
    /\ OnlyRecord.fid % SAMPLING_RATE = 0
    /\ extracted = <<>>

\* the last second of the second window is selected, the one after is the
\* excluded end
C28_WitnessSecondWindow ==
    /\ pc = "buffer"
    /\ Len(working_layer) = 1
    /\ OnlyRecord.seconds_start = 68399
    /\ extracted = <<OnlyRecord>>

----------------------------------------------------------------------------
(* The unique output name *)

\* the folder holds the file with number m behind the base name
NumberTaken(m) ==
    \E name \in existing :
        name # <<>> /\ name[1] # 0 /\ DecimalValue(name) = m

\* the returned name is free; it is the plain name if that is free, and
\* otherwise the name with the smallest number >= 1 that is free
SmallestFreeName ==
    path_pc = "returned" =>
        /\ full_path \notin existing
        /\ <<>> \notin existing => full_path = <<>>
        /\ <<>> \in existing =>
              /\ full_path # <<>>
              /\ full_path[1] # 0
              /\ DecimalValue(full_path) >= 1
              /\ \A m \in 1..(DecimalValue(full_path) - 1) : NumberTaken(m)

(* C29: Output paths never overwrite an existing file.  For any finite set *)
(* of existing files the unique-name loop of get_unique_filepath, and the  *)
(* loop of findNBufferIntersections, ends, and the name it ends with did   *)
(* not exist when it was tested: <basename>.<ext> if that is free, else    *)
(* <basename>_<n>.<ext> for the smallest n >= 1 that is free.              *)
C29_UniquePath ==
    /\ []SmallestFreeName
    /\ <>(path_pc = "returned")

\* plain name, _1 and _2 exist, _3 does not: get_unique_filepath returns _3
C29_Witness ==
    /\ path_pc = "returned"
    /\ variant = "get_unique_filepath"
    /\ existing = {<<>>, <<1>>, <<2>>, <<4>>}
    /\ full_path = <<3>>

\* the loop of findNBufferIntersections with the plain name and _1 taken
C29_WitnessFinalOutputName ==
    /\ path_pc = "returned"
    /\ variant = "final_output_name"
    /\ existing = {<<>>, <<1>>}
    /\ full_path = <<2>>

\* the plain name is free and is returned as it is
C29_WitnessPlain ==
    /\ path_pc = "returned"
    /\ existing = {<<1>>}
    /\ full_path = <<>>

====
